---- MODULE Spec2Model ----
(***************************************************************************)
(* MarkVault server (src/index.js): signup / login / refresh / logout /    *)
(* logout-all over a user collection, and per-user bookmark create / list  *)
(* / delete behind the access-token middleware.                            *)
(*                                                                         *)
(* Granularity: a step is the moment a database operation of a handler is  *)
(* applied to the store, or a stretch of synchronous JavaScript that runs  *)
(* when the reply of an operation reaches the handler: the token signing   *)
(* after the reply of the signup insert or of the login lookup, the        *)
(* verification after the reply of the refresh lookup, and the response    *)
(* that follows the last operation of a handler (Respond).  The            *)
(* access-token middleware and the synchronous code up to the first await  *)
(* of a protected route (`new Bookmark`, which generates the _id, among    *)
(* it) are one step, before the route's first operation.  Synchronous code *)
(* that comes before the first await of a handler and answers without the  *)
(* store answers in that step.  Handlers of different requests, and the    *)
(* clock, interleave between the steps (every `await` on the store): an    *)
(* operation that has been applied and the response that reports it are    *)
(* two steps, with any step of another request between them.  bcrypt's     *)
(* awaits read no shared state and are folded into the step that precedes  *)
(* them.                                                                   *)
(*                                                                         *)
(* Store semantics are those of the calls the source makes: a schema path  *)
(* declared `unique: true` is a unique index (an insert of a duplicate     *)
(* throws), `array.push(x); doc.save()` is an atomic $push that bumps the  *)
(* document version without testing it, and `doc.array = value;            *)
(* doc.save()` is a $set of the whole array that is conditioned on the     *)
(* version the document was read at (a stale version throws) and is not    *)
(* sent at all when the value equals the one that was read.  The version   *)
(* number itself is not kept: a suspended handler that has read a document *)
(* carries the flag `stale`, set by every write that bumps the version of  *)
(* that document, which is all the version is ever compared for.           *)
(***************************************************************************)
EXTENDS Integers, Sequences, FiniteSets, Bags, TLC

\* ---------------------------------------------------------------- bounds
MaxUsers == 2
MaxTokens == 3
MaxInFlight == 2
MaxTicks == 1
MaxBookmarks == 2

\* ------------------------------------------------------ program constants
\* expiresIn: "15m" and "7d", in seconds (jsonwebtoken's iat/exp unit)
AccessTTL == 900
RefreshTTL == 604800

\* ------------------------------------------------------------ input sets
Usernames == {"ann", "bob"}
Emails == {"a@x", "b@x"}
Missing == ""
\* A plaintext password: its first 72 bytes (all that bcrypt reads), and
\* whatever follows them.
Passwords == { [head |-> "p", tail |-> ""],
               [head |-> "p", tail |-> "z"],
               [head |-> "q", tail |-> ""] }
NoPassword == [head |-> "", tail |-> ""]
\* A clock step: the next second, past an access token's life, past a
\* refresh token's life.
ClockSteps == {1, AccessTTL, RefreshTTL}

VARIABLES
  users,      \* the User collection, in insertion order
  bookmarks,  \* the Bookmark collection, in insertion order
  nextBid,    \* number of Bookmark ids handed out so far
  env,        \* process.env: JWT_SECRET, REFRESH_SECRET ("" = not set)
  now,        \* wall clock, in seconds
  ticks,      \* number of clock steps taken
  inflight,   \* bag of requests whose handler is suspended at an await
  loggedOutAll, \* history: users whose logout-all succeeded, until a refresh
              \* token is next appended for them
  deleted,    \* history: ids of the bookmarks that were deleted
  resp        \* the response the last step sent (NoResp: it sent none)

vars == <<users, bookmarks, nextBid, env, now, ticks, inflight, loggedOutAll, deleted, resp>>

\* ------------------------------------------------------------------ JWT
\* A token string is determined by the signing key and the payload
\* {userId, [email], iat, exp}: two sign calls with the same payload in the
\* same second give the same string.
NoEmail == "undefined"
NoToken == [key |-> "", userId |-> 0, email |-> NoEmail, iat |-> 0, exp |-> 0]

JwtSign(userId, email, secret, ttl, t) ==
  [key |-> secret, userId |-> userId, email |-> email, iat |-> t, exp |-> t + ttl]

\* (mutant) a verify that does not test exp
JwtVerifyIgnoringExpiry(tok, secret, t) ==
  /\ secret # ""
  /\ tok.key = secret

\* jwt.verify: a secret must be given, the signature must be the secret's,
\* and the clock must be before exp.
JwtVerify(tok, secret, t) ==
  /\ secret # ""
  /\ tok.key = secret
  /\ t < tok.exp

\* ---------------------------------------------------------------- bcrypt
Truncate(pw) == pw.head
BcryptHash(pw) == [cost |-> 10, digest |-> Truncate(pw)]
BcryptCompare(pw, hash) == hash.digest = Truncate(pw)

\* ------------------------------------------------------------- sequences
RECURSIVE Filter(_, _)
\* Array.prototype.filter((token) => token !== x)
Filter(s, x) ==
  IF s = <<>> THEN <<>>
  ELSE IF Head(s) = x THEN Filter(Tail(s), x)
       ELSE <<Head(s)>> \o Filter(Tail(s), x)

Range(s) == {s[i] : i \in DOMAIN s}

\* --------------------------------------------------------------- queries
Ids == DOMAIN users
\* User.findOne({ $or: [{username}, {email}] }): the documents that match
MatchUsernameOrEmail(username, email) ==
  {i \in Ids : users[i].username = username \/ users[i].email = email}
\* User.findOne({ email })
MatchEmail(email) == {i \in Ids : users[i].email = email}
\* (mutant) the user the token names, whether or not the token is stored
MatchRefreshTokenBySubject(tok) == {i \in Ids : i = tok.userId}

\* User.findOne({ refreshTokens: token })
MatchRefreshToken(tok) == {i \in Ids : tok \in Range(users[i].refreshTokens)}

\* ------------------------------------------------------------- responses
\* What a step sent: the route (the Auth Gate, when it is the one that
\* answers), the status and the JSON body.  With the answer of a refresh
\* goes the refresh token its request presented (token): not part of what
\* is sent, kept for the properties.
NoResp == [op |-> "none", status |-> 0, message |-> "", token |-> NoToken,
           accessToken |-> NoToken, refreshToken |-> NoToken, list |-> <<>>]

Reply(op, status, message) ==
  [NoResp EXCEPT !.op = op, !.status = status, !.message = message]

ReplyTokens(op, status, message, at, rt) ==
  [NoResp EXCEPT !.op = op, !.status = status, !.message = message,
                 !.accessToken = at, !.refreshToken = rt]

\* resp is what the last step sent.  A refresh that ends the process (see
\* RefreshStatus) is the last step there is: nothing runs after it.
Exited == resp.op = "refresh" /\ resp.status = 0
Running == ~Exited

\* ------------------------------------------------------ in-flight requests
NoReq == [op |-> "none", pc |-> "none", username |-> "", email |-> "",
          password |-> NoPassword, token |-> NoToken, uid |-> 0,
          toks |-> <<>>, stale |-> FALSE, at |-> NoToken, rt |-> NoToken,
          bid |-> 0, doc |-> <<>>, out |-> NoResp]

Suspend(r) == inflight (+) SetToBag({r})
Resume(r, r2) == (inflight (-) SetToBag({r})) (+) SetToBag({r2})
Finish(r) == inflight (-) SetToBag({r})
\* A handler whose last store operation has been applied waits for the reply
\* of the store with the response it will send (out).  It still holds its
\* request: the user it acts for and the :id it was given.
Answering(op, out) == [NoReq EXCEPT !.op = op, !.pc = "answer", !.out = out]
Answer(r, out) ==
  Resume(r, [Answering(r.op, out) EXCEPT !.uid = r.uid, !.bid = r.bid])
InFlight == BagToSet(inflight)
CanSuspend == BagCardinality(inflight) < MaxInFlight

RECURSIVE CountOf(_)
CountOf(S) ==
  IF S = {} THEN 0
  ELSE LET r == CHOOSE x \in S : TRUE IN inflight[r] + CountOf(S \ {r})

RECURSIVE StoredTokens(_)
StoredTokens(S) ==
  IF S = {} THEN 0
  ELSE LET i == CHOOSE x \in S : TRUE
       IN Len(users[i].refreshTokens) + StoredTokens(S \ {i})

\* the refresh tokens that are stored, and those a suspended handler is
\* about to append
TokensHeld == StoredTokens(Ids) + CountOf({r \in InFlight : r.pc \in {"sign", "push"}})
\* signups that may still insert a user
PendingSignup == CountOf({r \in InFlight : r.op = "signup" /\ r.pc \in {"scan", "insert"}})

\* ------------------------------------------------------- token generation
\* generateAccessToken: "throw" when JWT_SECRET is not set
AccessSecretSet == env.JWT_SECRET # ""
generateAccessToken(uid, email) ==
  JwtSign(uid, email, env.JWT_SECRET, AccessTTL, now)

\* (mutant) the payload names the first user
SignRefreshTokenForFirst(uid) ==
  JwtSign(1, NoEmail, env.REFRESH_SECRET, RefreshTTL, now)

\* generateRefreshToken, up to the await of user.save()
RefreshSecretSet == env.REFRESH_SECRET # ""
SignRefreshToken(uid) ==
  JwtSign(uid, NoEmail, env.REFRESH_SECRET, RefreshTTL, now)

\* (mutant) the token is returned and the save is left out
PushRefreshTokenUnsaved(uid, tok) == users

\* (mutant) the save writes an array holding the new token alone
PushRefreshTokenOverwriting(uid, tok) ==
  [users EXCEPT ![uid].refreshTokens = <<tok>>]

\* generateRefreshToken's user.save(): $push, version bumped, not tested
PushRefreshToken(uid, tok) ==
  [users EXCEPT ![uid].refreshTokens = Append(@, tok)]

\* a version bump of document uid, as the suspended handlers that have read
\* the document will see it
BumpVersion(bag, uid) ==
  BagOfAll(LAMBDA r : IF r.uid = uid /\ r.pc = "save"
                      THEN [r EXCEPT !.stale = TRUE] ELSE r, bag)

\* --------------------------------------------------------------- signup
\* POST /api/auth/signup: field validation and the duplicate lookup.
SignupStart(username, email, password) ==
  /\ Running
  /\ UNCHANGED <<users, bookmarks, nextBid, env, now, ticks, loggedOutAll, deleted>>
  /\ IF username = Missing \/ email = Missing \/ Truncate(password) = Missing
     THEN /\ resp' = Reply("signup", 400, "All fields (username, email, password) are required.")
          /\ UNCHANGED inflight
     ELSE \/ \E i \in MatchUsernameOrEmail(username, email) :
               \* findOne returns one matching document
               /\ CanSuspend
               /\ inflight' = Suspend(Answering("signup",
                      IF users[i].username = username
                      THEN Reply("signup", 400, "Username is already taken")
                      ELSE Reply("signup", 400, "Email is already in use")))
               /\ resp' = NoResp
          \/ /\ MatchUsernameOrEmail(username, email) = {}
             /\ CanSuspend
             /\ Len(users) + PendingSignup < MaxUsers
             /\ inflight' = Suspend([NoReq EXCEPT !.op = "signup", !.pc = "scan",
                                       !.username = username, !.email = email,
                                       !.password = password])
             /\ resp' = NoResp

\* (mutant) the first user of the result is skipped
PasswordInUseSkippingFirst(password) ==
  \E i \in Ids : i > 1 /\ BcryptCompare(password, users[i].password)

\* the loop over User.find({}): bcrypt.compare with every user's hash
PasswordInUse(password) ==
  \E i \in Ids : BcryptCompare(password, users[i].password)

\* User.find({}) and the bcrypt.compare loop over its result
SignupScan(r) ==
  /\ Running
  /\ r.op = "signup" /\ r.pc = "scan"
  /\ UNCHANGED <<users, bookmarks, nextBid, env, now, ticks, loggedOutAll, deleted>>
  /\ resp' = NoResp
  /\ IF PasswordInUse(r.password)
     THEN inflight' = Answer(r, Reply("signup", 400, "This password has already been used"))
     ELSE inflight' = Resume(r, [r EXCEPT !.pc = "insert"])

\* (mutant) no unique index
UniqueViolationNever(username, email) == FALSE

\* the unique indexes of UserSchema
UniqueViolation(username, email) ==
  \E i \in Ids : users[i].username = username \/ users[i].email = email

NewUser(r) ==
  [id |-> Len(users) + 1, username |-> r.username, email |-> r.email,
   password |-> BcryptHash(r.password), refreshTokens |-> <<>>]

\* newUser.save(): the insert, as the unique indexes let it through
SignupInsert(r) ==
  /\ Running
  /\ r.op = "signup" /\ r.pc = "insert"
  /\ UNCHANGED <<bookmarks, nextBid, env, now, ticks, loggedOutAll, deleted>>
  /\ resp' = NoResp
  /\ IF UniqueViolation(r.username, r.email)
     THEN /\ inflight' = Answer(r, Reply("signup", 500, "E11000 duplicate key error"))
          /\ UNCHANGED users
     ELSE /\ users' = Append(users, NewUser(r))
          /\ inflight' = Resume(r, [r EXCEPT !.pc = "sign", !.uid = Len(users) + 1])

\* the reply of the insert: generateAccessToken, and generateRefreshToken
\* up to its await; a missing secret throws, and the handler answers 500
\* for the user it has inserted (uid)
SignupSign(r) ==
  /\ Running
  /\ r.op = "signup" /\ r.pc = "sign"
  /\ UNCHANGED <<users, bookmarks, nextBid, env, now, ticks, loggedOutAll, deleted>>
  /\ IF ~AccessSecretSet
     THEN /\ resp' = Reply("signup", 500, "Missing JWT_SECRET in .env file")
          /\ inflight' = Finish(r)
     ELSE IF ~RefreshSecretSet
     THEN /\ resp' = Reply("signup", 500, "Missing REFRESH_SECRET in .env file")
          /\ inflight' = Finish(r)
     ELSE /\ inflight' = Resume(r,
                 [r EXCEPT !.pc = "push",
                           !.at = generateAccessToken(r.uid, r.email),
                           !.rt = SignRefreshToken(r.uid)])
          /\ resp' = NoResp

\* generateRefreshToken's save is applied; the 201 follows its reply
SignupPush(r) ==
  /\ Running
  /\ r.op = "signup" /\ r.pc = "push"
  /\ users' = PushRefreshToken(r.uid, r.rt)
  /\ resp' = NoResp
  /\ inflight' = BumpVersion(
       Answer(r, ReplyTokens("signup", 201, "User registered", r.at, r.rt)), r.uid)
  /\ loggedOutAll' = loggedOutAll \ {r.uid}
  /\ UNCHANGED <<bookmarks, nextBid, env, now, ticks, deleted>>

\* ---------------------------------------------------------------- login
\* POST /api/auth/login: User.findOne({ email }) and bcrypt.compare with
\* the password of the user it found
LoginStart(email, password) ==
  /\ Running
  /\ UNCHANGED <<users, bookmarks, nextBid, env, now, ticks, loggedOutAll, deleted>>
  /\ CanSuspend
  /\ resp' = NoResp
  /\ IF MatchEmail(email) = {}
     THEN inflight' = Suspend(Answering("login",
              Reply("login", 400, "User with this email does not exists")))
     ELSE \E i \in MatchEmail(email) :
          IF ~BcryptCompare(password, users[i].password)
          THEN inflight' = Suspend(Answering("login", Reply("login", 400, "Invalid password")))
          ELSE /\ TokensHeld < MaxTokens
               /\ inflight' = Suspend([NoReq EXCEPT !.op = "login", !.pc = "sign",
                                         !.uid = i, !.email = users[i].email])

\* the reply of the lookup: generateAccessToken, and generateRefreshToken up
\* to the await of user.save(); a missing secret throws and is answered 500
LoginSign(r) ==
  /\ Running
  /\ r.op = "login" /\ r.pc = "sign"
  /\ UNCHANGED <<users, bookmarks, nextBid, env, now, ticks, loggedOutAll, deleted>>
  /\ IF ~AccessSecretSet
     THEN /\ resp' = Reply("login", 500, "Missing JWT_SECRET in .env file")
          /\ inflight' = Finish(r)
     ELSE IF ~RefreshSecretSet
     THEN /\ resp' = Reply("login", 500, "Missing REFRESH_SECRET in .env file")
          /\ inflight' = Finish(r)
     ELSE /\ inflight' = Resume(r, [r EXCEPT !.pc = "push",
                                              !.at = generateAccessToken(r.uid, r.email),
                                              !.rt = SignRefreshToken(r.uid)])
          /\ resp' = NoResp

\* generateRefreshToken's save is applied; the 200 follows its reply
LoginPush(r) ==
  /\ Running
  /\ r.op = "login" /\ r.pc = "push"
  /\ users' = PushRefreshToken(r.uid, r.rt)
  /\ resp' = NoResp
  /\ inflight' = BumpVersion(
       Answer(r, ReplyTokens("login", 200, "Login successful", r.at, r.rt)), r.uid)
  /\ loggedOutAll' = loggedOutAll \ {r.uid}
  /\ UNCHANGED <<bookmarks, nextBid, env, now, ticks, deleted>>

\* -------------------------------------------------------------- refresh
\* (mutant) the callback does not look at the verification
RefreshStatusUnverified(tok) ==
  IF ~AccessSecretSet THEN 0
  ELSE 200

\* The callback of jwt.verify (called synchronously): 403 on a failed
\* verification, else generateAccessToken.  A throw of generateAccessToken
\* inside the async callback rejects a promise nobody awaits: the try/catch
\* of the handler does not see it, no response is sent, and the unhandled
\* rejection ends the process (status 0).
RefreshStatus(tok) ==
  IF ~JwtVerify(tok, env.REFRESH_SECRET, now) THEN 403
  ELSE IF ~AccessSecretSet THEN 0
  ELSE 200

RefreshMessage(status) ==
  IF status = 401 THEN "Unauthorized - No refresh token provided"
  ELSE IF status = 403 THEN "Invalid refresh token"
  ELSE IF status = 0 THEN "process exited: Missing JWT_SECRET in .env file"
  ELSE ""

\* POST /api/auth/refresh: the body check and User.findOne({ refreshTokens })
Refresh(tok) ==
  /\ Running
  /\ UNCHANGED <<users, bookmarks, nextBid, env, now, ticks, loggedOutAll, deleted>>
  /\ IF tok = NoToken
     THEN /\ resp' = Reply("refresh", 401, RefreshMessage(401))
          /\ UNCHANGED inflight
     ELSE IF MatchRefreshToken(tok) = {}
     THEN /\ CanSuspend
          /\ inflight' = Suspend(Answering("refresh",
                 [Reply("refresh", 403, RefreshMessage(403)) EXCEPT !.token = tok]))
          /\ resp' = NoResp
     ELSE \E i \in MatchRefreshToken(tok) :
          /\ CanSuspend
          /\ inflight' = Suspend([NoReq EXCEPT !.op = "refresh", !.pc = "verify",
                                    !.token = tok, !.uid = i,
                                    !.email = users[i].email])
          /\ resp' = NoResp

\* (mutant) a refresh that consumes the token it was given
RefreshReplyRotating(r) ==
  /\ Running
  /\ r.op = "refresh" /\ r.pc = "verify"
  /\ RefreshStatus(r.token) = 200
  /\ users' = [users EXCEPT ![r.uid].refreshTokens = Filter(@, r.token)]
  /\ inflight' = Finish(r)
  /\ resp' = [Reply("refresh", 200, "") EXCEPT
                !.token = r.token,
                !.accessToken = generateAccessToken(r.uid, r.email)]
  /\ UNCHANGED <<bookmarks, nextBid, env, now, ticks, loggedOutAll, deleted>>

\* the reply of the findOne: jwt.verify, its callback, and the response
RefreshReply(r) ==
  /\ Running
  /\ r.op = "refresh" /\ r.pc = "verify"
  /\ UNCHANGED <<users, bookmarks, nextBid, env, now, ticks, loggedOutAll, deleted>>
  /\ IF RefreshStatus(r.token) = 200
     THEN /\ resp' = [Reply("refresh", 200, "") EXCEPT
                        !.token = r.token,
                        !.accessToken = generateAccessToken(r.uid, r.email)]
          /\ inflight' = Finish(r)
     ELSE IF RefreshStatus(r.token) = 0
     THEN /\ resp' = [Reply("refresh", 0, RefreshMessage(0)) EXCEPT !.token = r.token]
          /\ inflight' = EmptyBag
     ELSE /\ resp' = [Reply("refresh", RefreshStatus(r.token),
                            RefreshMessage(RefreshStatus(r.token)))
                        EXCEPT !.token = r.token]
          /\ inflight' = Finish(r)

\* --------------------------------------------------------------- logout
\* user.save() after `user.refreshTokens = value`: nothing is sent when the
\* value equals the array that was read; otherwise the whole array is $set
\* under the condition that the stored version is the one that was read.
\* (mutant) the assignment is made and the save is left out
SaveTokensUnsaved(uid, readToks, value) == users

SaveTokens(uid, readToks, value) ==
  IF value = readToks THEN users
  ELSE [users EXCEPT ![uid].refreshTokens = value]

SaveBumps(bag, uid, readToks, value) ==
  IF value = readToks THEN bag ELSE BumpVersion(bag, uid)

\* (mutant) a save that does not test the version
VersionErrorNever(readToks, stale, value) == FALSE

VersionError(readToks, stale, value) ==
  value # readToks /\ stale

\* POST /api/auth/logout: User.findOne({ refreshTokens: refreshToken })
LogoutStart(tok) ==
  /\ Running
  /\ UNCHANGED <<users, bookmarks, nextBid, env, now, ticks, loggedOutAll, deleted>>
  /\ CanSuspend
  /\ resp' = NoResp
  /\ IF MatchRefreshToken(tok) = {}
     THEN inflight' = Suspend(Answering("logout",
              Reply("logout", 403, "Invalid refresh token")))
     ELSE \E i \in MatchRefreshToken(tok) :
          inflight' = Suspend([NoReq EXCEPT !.op = "logout", !.pc = "save",
                                 !.token = tok, !.uid = i,
                                 !.toks = users[i].refreshTokens])

\* user.refreshTokens = user.refreshTokens.filter(...); await user.save()
LogoutSave(r) ==
  /\ Running
  /\ r.op = "logout" /\ r.pc = "save"
  /\ UNCHANGED <<bookmarks, nextBid, env, now, ticks, loggedOutAll, deleted>>
  /\ resp' = NoResp
  /\ IF VersionError(r.toks, r.stale, Filter(r.toks, r.token))
     THEN /\ inflight' = Answer(r, Reply("logout", 500, "VersionError"))
          /\ UNCHANGED users
     ELSE /\ users' = SaveTokens(r.uid, r.toks, Filter(r.toks, r.token))
          /\ inflight' = SaveBumps(
               Answer(r, Reply("logout", 200, "Logged out successfully")),
               r.uid, r.toks, Filter(r.toks, r.token))

\* ------------------------------------------------------------ Auth Gate
\* An Authorization header, as what split(" ") makes of it: a list of words.
\* A word is a JWT, some other text, or (kind "undefined") no word at all.
TextWord(s) == [kind |-> "text", text |-> s, jwt |-> NoToken]
JwtWord(t) == [kind |-> "jwt", text |-> "jwt", jwt |-> t]
UndefinedWord == [kind |-> "undefined", text |-> "", jwt |-> NoToken]
NoHeader == [present |-> FALSE, words |-> <<>>]
Header(words) == [present |-> TRUE, words |-> words]

\* req.headers.authorization?.split(" ")[1]
ExtractToken(h) ==
  IF ~h.present THEN UndefinedWord
  ELSE IF Len(h.words) < 2 THEN UndefinedWord
  ELSE h.words[2]

\* !token
Falsy(w) == w.kind = "undefined" \/ (w.kind = "text" /\ w.text = "")

\* (mutant) a gate that also wants a stored refresh token of the user
authenticateUserWithSession(h) ==
  LET w == ExtractToken(h) IN
  IF Falsy(w)
  THEN [status |-> 401, message |-> "Unauthorized - No token provided", user |-> NoToken]
  ELSE IF /\ w.kind = "jwt" /\ JwtVerify(w.jwt, env.JWT_SECRET, now)
          /\ w.jwt.userId \in DOMAIN users
          /\ users[w.jwt.userId].refreshTokens # <<>>
  THEN [status |-> 0, message |-> "", user |-> w.jwt]
  ELSE [status |-> 403, message |-> "Invalid or expired token", user |-> NoToken]

\* authenticateUser: status 0 stands for next(), with req.user = decoded
authenticateUser(h) ==
  LET w == ExtractToken(h) IN
  IF Falsy(w)
  THEN [status |-> 401, message |-> "Unauthorized - No token provided", user |-> NoToken]
  ELSE IF w.kind = "jwt" /\ JwtVerify(w.jwt, env.JWT_SECRET, now)
  THEN [status |-> 0, message |-> "", user |-> w.jwt]
  ELSE [status |-> 403, message |-> "Invalid or expired token", user |-> NoToken]

\* ----------------------------------------------------------- logout-all
\* POST /api/auth/logout-all: the gate, and the handler up to the await of
\* User.findById(req.user.userId)
LogoutAllStart(h) ==
  /\ Running
  /\ UNCHANGED <<users, bookmarks, nextBid, env, now, ticks, loggedOutAll, deleted>>
  /\ LET g == authenticateUser(h) IN
     IF g.status # 0
     THEN /\ resp' = Reply("authenticateUser", g.status, g.message)
          /\ UNCHANGED inflight
     ELSE /\ CanSuspend
          /\ inflight' = Suspend([NoReq EXCEPT !.op = "logoutAll", !.pc = "find",
                                    !.uid = g.user.userId])
          /\ resp' = NoResp

\* User.findById: the record as it is stored when the query is applied
LogoutAllFind(r) ==
  /\ Running
  /\ r.op = "logoutAll" /\ r.pc = "find"
  /\ UNCHANGED <<users, bookmarks, nextBid, env, now, ticks, loggedOutAll, deleted>>
  /\ resp' = NoResp
  /\ IF r.uid \notin Ids
     THEN inflight' = Answer(r, Reply("logoutAll", 403, "User not found"))
     ELSE inflight' = Resume(r, [r EXCEPT !.pc = "save",
                                          !.toks = users[r.uid].refreshTokens])

\* user.refreshTokens = []; await user.save()
LogoutAllSave(r) ==
  /\ Running
  /\ r.op = "logoutAll" /\ r.pc = "save"
  /\ UNCHANGED <<bookmarks, nextBid, env, now, ticks, deleted>>
  /\ resp' = NoResp
  /\ IF VersionError(r.toks, r.stale, <<>>)
     THEN /\ inflight' = Answer(r, Reply("logoutAll", 500, "VersionError"))
          /\ UNCHANGED <<users, loggedOutAll>>
     ELSE /\ users' = SaveTokens(r.uid, r.toks, <<>>)
          /\ inflight' = SaveBumps(
               Answer(r, Reply("logoutAll", 200, "Logged out from all devices")),
               r.uid, r.toks, <<>>)
          /\ loggedOutAll' = IF r.stale THEN loggedOutAll ELSE loggedOutAll \cup {r.uid}

\* ------------------------------------------------------------ bookmarks
\* A Bookmark document has the paths of BookmarkSchema (title stands for
\* title, url, category, tags, notes) and _id; the schema declares no
\* createdAt path and no timestamps option.
\* (mutant) the body's userId wins over req.user's
NewBookmarkTrustingBody(body, authUserId) ==
  [id |-> nextBid + 1, title |-> body.title,
   userId |-> IF body.userId # 0 THEN body.userId ELSE authUserId]

\* new Bookmark({ ...req.body, userId: req.user.userId }): the document has
\* its _id from here on; the ids of one process increase in the order the
\* documents are made
NewBookmark(body, authUserId) ==
  [id |-> nextBid + 1, title |-> body.title, userId |-> authUserId]

\* POST /api/bookmarks: the gate, and the handler up to the await of
\* newBookmark.save(), with req.user and req.body
CreateBookmark(h, body) ==
  /\ Running
  /\ UNCHANGED <<users, bookmarks, env, now, ticks, loggedOutAll, deleted>>
  /\ LET g == authenticateUser(h) IN
     IF g.status # 0
     THEN /\ resp' = Reply("authenticateUser", g.status, g.message)
          /\ UNCHANGED <<inflight, nextBid>>
     ELSE /\ CanSuspend
          /\ nextBid < MaxBookmarks
          /\ nextBid' = nextBid + 1
          /\ inflight' = Suspend([NoReq EXCEPT !.op = "createBookmark", !.pc = "create",
                                    !.uid = g.user.userId,
                                    !.doc = <<NewBookmark(body, g.user.userId)>>])
          /\ resp' = NoResp

\* newBookmark.save() is applied; the 201 with the document follows its
\* reply
CreateBookmarkSave(r) ==
  /\ Running
  /\ r.op = "createBookmark" /\ r.pc = "create"
  /\ UNCHANGED <<users, nextBid, env, now, ticks, loggedOutAll, deleted>>
  /\ bookmarks' = bookmarks \o r.doc
  /\ resp' = NoResp
  /\ inflight' = Answer(r, [Reply("createBookmark", 201, "") EXCEPT !.list = r.doc])

\* Bookmark.find({ userId }): the matching documents, in natural order
FindByOwner(uid) == SelectSeq(bookmarks, LAMBDA b : b.userId = uid)

\* the sort key of .sort({ createdAt: -1 }): the document's createdAt, and
\* null (0, below every date) for a document without that path
CreatedAt(b) == IF "createdAt" \in DOMAIN b THEN b.createdAt ELSE 0

IsSortedDesc(s) ==
  \A i \in DOMAIN s : \A j \in DOMAIN s : i < j => CreatedAt(s[i]) >= CreatedAt(s[j])

\* the orders a sort by createdAt descending can return: it fixes the order
\* of documents whose keys differ and no other
SortByCreatedAtDesc(s) ==
  {t \in {[i \in DOMAIN s |-> s[p[i]]] : p \in Permutations(DOMAIN s)} : IsSortedDesc(t)}

\* GET /api/bookmarks: the gate, and the handler up to the await of the
\* query
ListBookmarks(h) ==
  /\ Running
  /\ UNCHANGED <<users, bookmarks, nextBid, env, now, ticks, loggedOutAll, deleted>>
  /\ LET g == authenticateUser(h) IN
     IF g.status # 0
     THEN /\ resp' = Reply("authenticateUser", g.status, g.message)
          /\ UNCHANGED inflight
     ELSE /\ CanSuspend
          /\ inflight' = Suspend([NoReq EXCEPT !.op = "listBookmarks", !.pc = "find",
                                    !.uid = g.user.userId])
          /\ resp' = NoResp

\* Bookmark.find({ userId }).sort({ createdAt: -1 }) is applied; the 200
\* with its result follows the reply
ListBookmarksFind(r) ==
  /\ Running
  /\ r.op = "listBookmarks" /\ r.pc = "find"
  /\ UNCHANGED <<users, bookmarks, nextBid, env, now, ticks, loggedOutAll, deleted>>
  /\ resp' = NoResp
  /\ \E result \in SortByCreatedAtDesc(FindByOwner(r.uid)) :
       inflight' = Answer(r, [Reply("listBookmarks", 200, "") EXCEPT
                                !.list = result])

\* (mutant) a delete by _id alone
MatchBookmarkAnyOwner(id, uid) ==
  {i \in DOMAIN bookmarks : bookmarks[i].id = id}

\* Bookmark.findOneAndDelete({ _id: id, userId })
MatchBookmark(id, uid) ==
  {i \in DOMAIN bookmarks : bookmarks[i].id = id /\ bookmarks[i].userId = uid}

RemoveAt(s, i) == SubSeq(s, 1, i - 1) \o SubSeq(s, i + 1, Len(s))

\* an :id that is no ObjectId
MalformedId == 0

\* DELETE /api/bookmarks/:id: the gate, and the handler up to the await of
\* findOneAndDelete; an :id that cannot be cast fails the query before it
\* is sent
DeleteBookmark(h, id) ==
  /\ Running
  /\ UNCHANGED <<users, bookmarks, nextBid, env, now, ticks, loggedOutAll, deleted>>
  /\ LET g == authenticateUser(h) IN
     IF g.status # 0
     THEN /\ resp' = Reply("authenticateUser", g.status, g.message)
          /\ UNCHANGED inflight
     ELSE IF id = MalformedId
     THEN /\ resp' = Reply("deleteBookmark", 500, "Cast to ObjectId failed")
          /\ UNCHANGED inflight
     ELSE /\ CanSuspend
          /\ inflight' = Suspend([NoReq EXCEPT !.op = "deleteBookmark", !.pc = "delete",
                                    !.uid = g.user.userId, !.bid = id])
          /\ resp' = NoResp

\* Bookmark.findOneAndDelete({ _id, userId }) is applied; the 404 or 200
\* follows its reply
DeleteBookmarkApply(r) ==
  /\ Running
  /\ r.op = "deleteBookmark" /\ r.pc = "delete"
  /\ UNCHANGED <<users, nextBid, env, now, ticks, loggedOutAll>>
  /\ resp' = NoResp
  /\ IF MatchBookmark(r.bid, r.uid) = {}
     THEN /\ inflight' = Answer(r,
                 Reply("deleteBookmark", 404, "Bookmark not found or unauthorized"))
          /\ UNCHANGED <<bookmarks, deleted>>
     ELSE \E i \in MatchBookmark(r.bid, r.uid) :
          /\ bookmarks' = RemoveAt(bookmarks, i)
          /\ deleted' = deleted \cup {r.bid}
          /\ inflight' = Answer(r,
                 Reply("deleteBookmark", 200, "Bookmark deleted successfully"))

\* ---------------------------------------------------------------- clock
Tick(d) ==
  /\ Running
  /\ ticks < MaxTicks
  /\ now' = now + d
  /\ ticks' = ticks + 1
  /\ resp' = NoResp
  /\ UNCHANGED <<users, bookmarks, nextBid, env, inflight, loggedOutAll, deleted>>

\* ------------------------------------------------------- client inputs
\* The instants a token in a request was signed at: the one the clock
\* started at and the one it shows.
PastTimes == {0, now}

\* A request can carry any string.  The strings that matter are the tokens
\* the server's secrets sign for a user at some instant (the tokens it has
\* issued are among them; the rest are signed, never issued ones) and a
\* token with a signature of another key.
Forge(t) == [t EXCEPT !.key = "forged"]
SignedRefreshTokens ==
  IF RefreshSecretSet
  THEN {JwtSign(i, NoEmail, env.REFRESH_SECRET, RefreshTTL, t) : i \in Ids, t \in PastTimes}
  ELSE {}
SignedAccessTokens ==
  IF AccessSecretSet
  THEN {JwtSign(i, users[i].email, env.JWT_SECRET, AccessTTL, t) : i \in Ids, t \in PastTimes}
  ELSE {}
RefreshInputs ==
  SignedRefreshTokens \cup {Forge(SignRefreshToken(i)) : i \in Ids \cap {1}}
AccessInputs ==
  SignedAccessTokens \cup {Forge(generateAccessToken(i, users[i].email)) : i \in Ids \cap {1}}
\* "Bearer <token>", or no Authorization header
BearerHeaders ==
  {NoHeader} \cup {Header(<<TextWord("Bearer"), JwtWord(t)>>) : t \in AccessInputs}
\* headers of other shapes, with a token the server would sign now
OtherHeaders ==
  {Header(<<TextWord("Bearer")>>),
   Header(<<TextWord("Bearer"), TextWord("")>>),
   Header(<<TextWord("Bearer"), TextWord("garbage")>>)}
  \cup UNION {{Header(<<TextWord("Basic"), JwtWord(generateAccessToken(i, users[i].email))>>),
              Header(<<JwtWord(generateAccessToken(i, users[i].email))>>),
              Header(<<TextWord("Bearer"), TextWord(""),
                       JwtWord(generateAccessToken(i, users[i].email))>>)}
             : i \in Ids \cap {1}}
Headers == BearerHeaders \cup OtherHeaders
\* request bodies of a create: one that names no userId, and one that
\* names the last user as its userId
Bodies == {[title |-> "t1", userId |-> 0], [title |-> "t2", userId |-> MaxUsers]}

\* -------------------------------------------------------- specification
\* each secret is set or not; the two secrets are different strings
Envs == [JWT_SECRET : {"", "k1"}, REFRESH_SECRET : {"", "k2"}]

\* the store after construction: empty
Init ==
  /\ users = <<>>
  /\ bookmarks = <<>>
  /\ nextBid = 0
  /\ env \in Envs
  /\ now = 0
  /\ ticks = 0
  /\ inflight = EmptyBag
  /\ loggedOutAll = {}
  /\ deleted = {}
  /\ resp = NoResp

\* the store after two signups in the second the clock starts at: each
\* user holds the refresh token of its signup, or none when a secret is
\* not set (the signup then ends 500 after the user is inserted)
SignedUp(i, username, email, password) ==
  [id |-> i, username |-> username, email |-> email,
   password |-> BcryptHash(password),
   refreshTokens |-> IF AccessSecretSet /\ RefreshSecretSet
                     THEN <<SignRefreshToken(i)>> ELSE <<>>]

InitRegistered ==
  /\ bookmarks = <<>>
  /\ nextBid = 0
  /\ env \in Envs
  /\ now = 0
  /\ ticks = 0
  /\ inflight = EmptyBag
  /\ loggedOutAll = {}
  /\ deleted = {}
  /\ resp = NoResp
  /\ users = <<SignedUp(1, "ann", "a@x", [head |-> "p", tail |-> ""]),
               SignedUp(2, "bob", "b@x", [head |-> "q", tail |-> ""])>>

\* the same with REFRESH_SECRET set: the routes behind the gate do not read
\* it
InitGated == InitRegistered /\ RefreshSecretSet

SignupNext ==
  \/ \E u \in Usernames \cup {Missing}, e \in Emails \cup {Missing},
        p \in Passwords \cup {NoPassword} : SignupStart(u, e, p)
  \/ \E r \in InFlight : SignupScan(r)
  \/ \E r \in InFlight : SignupInsert(r)
  \/ \E r \in InFlight : SignupSign(r)
  \/ \E r \in InFlight : SignupPush(r)

\* a login password: the first user's with bytes after the 72nd, and the
\* second user's
LoginPasswords == {[head |-> "p", tail |-> "z"], [head |-> "q", tail |-> ""]}

SessionNext ==
  \/ \E e \in Emails \cup {"c@x"}, p \in LoginPasswords : LoginStart(e, p)
  \/ \E r \in InFlight : LoginSign(r)
  \/ \E r \in InFlight : LoginPush(r)
  \/ \E t \in RefreshInputs \cup {NoToken} : Refresh(t)
  \/ \E r \in InFlight : RefreshReply(r)
  \/ \E t \in RefreshInputs : LogoutStart(t)
  \/ \E r \in InFlight : LogoutSave(r)
  \/ \E h \in BearerHeaders : LogoutAllStart(h)
  \/ \E r \in InFlight : LogoutAllFind(r)
  \/ \E r \in InFlight : LogoutAllSave(r)

BookmarkNext ==
  \/ \E h \in BearerHeaders, b \in Bodies : CreateBookmark(h, b)
  \/ \E r \in InFlight : CreateBookmarkSave(r)
  \/ \E h \in BearerHeaders : ListBookmarks(h)
  \/ \E r \in InFlight : ListBookmarksFind(r)
  \/ \E h \in BearerHeaders, id \in 0..MaxBookmarks : DeleteBookmark(h, id)
  \/ \E r \in InFlight : DeleteBookmarkApply(r)

Clock == \E d \in ClockSteps : Tick(d)
\* the clock step that matters to the routes that sign no token: past an
\* access token's life
AccessClock == Tick(AccessTTL)

\* The reply of a handler's last store operation reaches the handler, and
\* it sends its response (res.json after the await).
Respond(r) ==
  /\ Running
  /\ r.pc = "answer"
  /\ resp' = r.out
  /\ inflight' = Finish(r)
  /\ UNCHANGED <<users, bookmarks, nextBid, env, now, ticks, loggedOutAll, deleted>>

Responses == \E r \in InFlight : Respond(r)

\* every route
Next == SignupNext \/ SessionNext \/ BookmarkNext \/ Clock \/ Responses
Spec == Init /\ [][Next]_vars

\* signups, handled concurrently, from the empty store
SignupServer == SignupNext \/ Clock \/ Responses
SpecSignup == Init /\ [][SignupServer]_vars

\* login, refresh, logout and logout-all, handled concurrently, for
\* registered users, while access tokens can expire
SessionServer == SessionNext \/ AccessClock \/ Responses
SpecSession == InitRegistered /\ [][SessionServer]_vars

\* the bookmark routes, handled concurrently, for registered users
BookmarkServer == BookmarkNext \/ AccessClock \/ Responses
SpecBookmarks == InitGated /\ [][BookmarkServer]_vars

\* the headers that carry no token of a user other than the first
FirstUserHeaders ==
  {h \in Headers : Len(h.words) < 2 \/ h.words[2].jwt.userId \in {0, 1}}

\* the four routes behind the Auth Gate, handled concurrently, with headers
\* of every shape: the first user's requests on each route, and any user's
\* on the list
GateNext ==
  \/ \E h \in FirstUserHeaders : LogoutAllStart(h)
  \/ \E r \in InFlight : LogoutAllFind(r)
  \/ \E r \in InFlight : LogoutAllSave(r)
  \/ \E h \in FirstUserHeaders : CreateBookmark(h, [title |-> "t1", userId |-> 0])
  \/ \E r \in InFlight : CreateBookmarkSave(r)
  \/ \E h \in Headers : ListBookmarks(h)
  \/ \E r \in InFlight : ListBookmarksFind(r)
  \/ \E h \in FirstUserHeaders, id \in {MalformedId, 1} : DeleteBookmark(h, id)
  \/ \E r \in InFlight : DeleteBookmarkApply(r)

GateServer == GateNext \/ AccessClock \/ Responses
SpecGate == InitGated /\ [][GateServer]_vars

\* The store outlives the process, and the secrets are read from the
\* environment of the process that is running (dotenv.config at start):
\* the store a run with both secrets set ("k1", "k2") left behind, "ann"
\* registered in second 0 and holding the refresh token of her signup, with
\* the server started again under any configuration.
InitRestarted ==
  /\ bookmarks = <<>>
  /\ nextBid = 0
  /\ env \in Envs
  /\ now = 0
  /\ ticks = 0
  /\ inflight = EmptyBag
  /\ loggedOutAll = {}
  /\ deleted = {}
  /\ resp = NoResp
  /\ users = <<[id |-> 1, username |-> "ann", email |-> "a@x",
                password |-> BcryptHash([head |-> "p", tail |-> ""]),
                refreshTokens |-> <<JwtSign(1, NoEmail, "k2", RefreshTTL, 0)>>]>>

\* the refresh tokens the store holds: a client can have been given them
StoredRefreshTokens == UNION {Range(users[i].refreshTokens) : i \in Ids}

\* the routes that issue access tokens
IssuanceNext ==
  \/ \E u \in Usernames \cup {Missing}, e \in Emails \cup {Missing},
        p \in Passwords \cup {NoPassword} : SignupStart(u, e, p)
  \/ \E r \in InFlight : SignupScan(r)
  \/ \E r \in InFlight : SignupInsert(r)
  \/ \E r \in InFlight : SignupSign(r)
  \/ \E r \in InFlight : SignupPush(r)
  \/ \E e \in Emails, p \in Passwords : LoginStart(e, p)
  \/ \E r \in InFlight : LoginSign(r)
  \/ \E r \in InFlight : LoginPush(r)
  \/ \E t \in RefreshInputs \cup StoredRefreshTokens \cup {NoToken} : Refresh(t)
  \/ \E r \in InFlight : RefreshReply(r)

RestartedServer == IssuanceNext \/ Clock \/ Responses
SpecRestarted == InitRestarted /\ [][RestartedServer]_vars

\* ================================================================ claims
Stored(tok) == \E i \in Ids : tok \in Range(users[i].refreshTokens)
WellSignedRefresh(tok) ==
  /\ env.REFRESH_SECRET # ""
  /\ tok.key = env.REFRESH_SECRET
  /\ tok.userId \in Ids
  /\ now < tok.exp
Bearer(tok) == Header(<<TextWord("Bearer"), JwtWord(tok)>>)
\* the answer a refresh with tok gets when its query and the reply of the
\* query both happen in this state
RefreshAnswer(tok) ==
  IF tok = NoToken THEN 401
  ELSE IF MatchRefreshToken(tok) = {} THEN 403
  ELSE RefreshStatus(tok)
\* the records a step has put in flight, and among them the handlers it has
\* left waiting with their answer
Started == {r \in BagToSet(inflight') : CopiesIn(r, inflight') > CopiesIn(r, inflight)}
NewAnswers == {a \in Started : a.pc = "answer"}
\* a step in which a logout or a logout-all of user u applies its save
RevokesFor(u) ==
  \E r \in InFlight : r.uid = u /\ (LogoutSave(r) \/ LogoutAllSave(r))

\* C1: a refresh request whose token is in no user's refreshTokens when the
\* handler looks it up gets the answer 403 without an access token there,
\* and does not go on to the verification, also when the token carries a
\* valid signature of the refresh secret for an existing user and has not
\* expired; and that answer is what is sent when the handler resumes.
C1_UnstoredRefreshRejected ==
  [][/\ \A t \in RefreshInputs :
          (~Stored(t) /\ Refresh(t)) =>
            /\ resp' = NoResp
            /\ \E a \in NewAnswers :
                 /\ inflight' = inflight (+) SetToBag({a})
                 /\ a.out.op = "refresh"
                 /\ a.out.status = 403
                 /\ a.out.accessToken = NoToken
                 /\ a.out.token = t
     /\ \A r \in InFlight :
          (Respond(r) /\ r.out.op = "refresh") =>
            /\ resp' = r.out
            /\ resp'.status = 403
            /\ resp'.accessToken = NoToken
    ]_vars

\* a well-signed, unexpired token of an existing user that is not stored was
\* presented to refresh and refused
C1_Witness ==
  /\ resp.op = "refresh"
  /\ resp.status = 403
  /\ WellSignedRefresh(resp.token)
  /\ ~Stored(resp.token)

\* C2: once a logout-all of user u has applied its save, and for as long as
\* no refresh token has been appended for u since that logout-all read u's
\* record, u's refreshTokens is empty, and a refresh request whose lookup
\* comes with any token signed for u gets the answer 403.
C2_LogoutAllRevokes ==
  [][/\ \A u \in loggedOutAll :
          /\ u \in Ids
          /\ users[u].refreshTokens = <<>>
          /\ \A t \in SignedRefreshTokens : t.userId = u => RefreshAnswer(t) = 403
     /\ \A u \in loggedOutAll' : users'[u].refreshTokens = <<>>
     /\ \A t \in RefreshInputs :
          (t.userId \in loggedOutAll /\ Refresh(t)) =>
            /\ resp' = NoResp
            /\ \E a \in NewAnswers :
                 /\ inflight' = inflight (+) SetToBag({a})
                 /\ a.out.status = 403
                 /\ a.out.accessToken = NoToken
    ]_vars

\* after a logout-all of u, the refresh token of u's signup, still well
\* signed and unexpired, was presented to refresh and refused
C2_Witness ==
  \E u \in loggedOutAll :
    /\ resp.op = "refresh"
    /\ resp.status = 403
    /\ resp.token = JwtSign(u, NoEmail, env.REFRESH_SECRET, RefreshTTL, 0)
    /\ WellSignedRefresh(resp.token)

\* C3: the save of a logout that is answered 200 for token T of user u
\* leaves the store as it was but for u's refreshTokens, from which exactly
\* the entries equal to T are gone: T is no longer in it, every other token
\* that was stored for u when the save was applied (those appended by
\* logins running alongside the logout among them) is still in it, and
\* refresh answers for each of them as it did before; the step that sends
\* the 200 changes nothing.
C3_LogoutRemovesOnlyGivenToken ==
  [][/\ \A r \in InFlight :
          (LogoutSave(r) /\ \E a \in NewAnswers : a.out.status = 200) =>
            /\ r.uid \in Ids
            /\ users' = [users EXCEPT ![r.uid].refreshTokens = Filter(@, r.token)]
            /\ r.token \notin Range(users'[r.uid].refreshTokens)
            /\ \A t \in Range(users[r.uid].refreshTokens) \ {r.token} :
                 /\ t \in Range(users'[r.uid].refreshTokens)
                 /\ RefreshAnswer(t)' = RefreshAnswer(t)
     /\ \A r \in InFlight :
          (Respond(r) /\ r.out.op = "logout") => (resp' = r.out /\ users' = users)
    ]_vars

\* the save of a logout was applied and is to be answered 200; a login of
\* the same user that ran alongside it has appended its token, which is
\* stored and accepted
C3_Witness ==
  \E a \in InFlight : \E l \in InFlight :
    /\ a.op = "logout" /\ a.pc = "answer" /\ a.out.status = 200
    /\ l.op = "login" /\ l.pc = "answer" /\ l.uid = a.uid
    /\ l.out.refreshToken \in Range(users[a.uid].refreshTokens)
    /\ RefreshAnswer(l.out.refreshToken) = 200

\* C4 as stated: the refresh token of a login answered 200 is in the user's
\* refreshTokens in the state the response is sent in (with the rest of the
\* claim as in C4_LoginReturnsUsableTokens).
C4_LoginTokenStoredAtResponse ==
  [][\A r \in InFlight :
       (Respond(r) /\ r.out.op = "login" /\ r.out.status = 200) =>
         /\ r.uid \in DOMAIN users'
         /\ resp'.accessToken.userId = r.uid
         /\ (now' < resp'.accessToken.exp =>
               (authenticateUser(Bearer(resp.accessToken)) =
                  [status |-> 0, message |-> "", user |-> resp.accessToken])')
         /\ resp'.refreshToken \in Range(users'[r.uid].refreshTokens)
    ]_vars

\* C4 (amended): a login with the email of a user and a password bcrypt
\* accepts for that user is not refused (with both secrets set it goes on
\* to sign and to save); its save appends the refresh token it will return
\* to the user's refreshTokens; a stored token leaves a user's refreshTokens
\* only in the save of a logout or logout-all of that user; and the 200
\* response carries that refresh token and an access token for the user
\* which the Auth Gate accepts for as long as it has not expired.  So the
\* returned refresh token is in the user's refreshTokens when the login
\* responds unless a logout or logout-all of the user was applied between
\* the login's save and its response.
C4_LoginReturnsUsableTokens ==
  [][/\ \A e \in Emails, p \in Passwords :
          (/\ LoginStart(e, p)
           /\ \E i \in Ids : users[i].email = e /\ users[i].password = BcryptHash(p))
          => \E r \in Started :
               /\ inflight' = inflight (+) SetToBag({r})
               /\ r.op = "login" /\ r.pc = "sign"
               /\ users[r.uid].email = e
     /\ \A r \in InFlight :
          (LoginSign(r) /\ AccessSecretSet /\ RefreshSecretSet) =>
            (resp' = NoResp /\ \E q \in Started : q.pc = "push" /\ q.uid = r.uid)
     /\ \A r \in InFlight :
          LoginPush(r) =>
            /\ users' = [users EXCEPT ![r.uid].refreshTokens = Append(@, r.rt)]
            /\ \E a \in NewAnswers :
                 /\ a.out.op = "login" /\ a.out.status = 200
                 /\ a.out.refreshToken = r.rt
                 /\ a.out.accessToken = r.at
                 /\ a.uid = r.uid
     /\ \A i \in Ids : \A t \in Range(users[i].refreshTokens) :
          t \notin Range(users'[i].refreshTokens) => RevokesFor(i)
     /\ \A r \in InFlight :
          (Respond(r) /\ r.out.op = "login" /\ r.out.status = 200) =>
            /\ resp' = r.out
            /\ r.uid \in DOMAIN users'
            /\ resp'.accessToken.userId = r.uid
            /\ resp'.accessToken.email = users'[r.uid].email
            /\ resp'.refreshToken.userId = r.uid
            /\ (now' < resp'.accessToken.exp =>
                  (authenticateUser(Bearer(resp.accessToken)) =
                     [status |-> 0, message |-> "", user |-> resp.accessToken])')
    ]_vars

\* a login was answered 200 with a token pair: the refresh token is stored
\* and the gate accepts the access token
C4_Witness ==
  /\ resp.op = "login"
  /\ resp.status = 200
  /\ resp.refreshToken.userId \in Ids
  /\ resp.refreshToken \in Range(users[resp.refreshToken.userId].refreshTokens)
  /\ authenticateUser(Bearer(resp.accessToken)).status = 0

\* C5: no two users have the same username and no two have the same email.
C5_UniqueUsernameEmail ==
  \A i \in Ids : \A j \in Ids :
    i # j => (users[i].username # users[j].username /\ users[i].email # users[j].email)

\* of two signups with the same username or email handled side by side,
\* the second to insert was stopped by the unique index
C5_Witness ==
  /\ resp.op = "signup"
  /\ resp.status = 500
  /\ resp.message = "E11000 duplicate key error"
  /\ Len(users) >= 1

\* C6: a signup that arrives with the plaintext password of an existing
\* user creates no user in its first step; when the scan of a signup finds
\* a user whose stored hash is the hash of the signup's plaintext password
\* (whatever that user's username and email are), the handler is left with
\* the answer 400 "This password has already been used", and no user is
\* created in that step or in the one that sends the answer.
C6_ReusedPasswordRejected ==
  [][/\ users' # users =>
          \A u \in Usernames \cup {Missing}, e \in Emails \cup {Missing},
             p \in Passwords \cup {NoPassword} :
             (\E i \in Ids : users[i].password = BcryptHash(p)) => ~SignupStart(u, e, p)
     /\ \A r \in InFlight :
          (/\ SignupScan(r)
           /\ \E i \in Ids : users[i].password = BcryptHash(r.password))
          => (/\ users' = users
              /\ BagCardinality(inflight') = BagCardinality(inflight)
              /\ \E a \in NewAnswers :
                   /\ a.out.op = "signup"
                   /\ a.out.status = 400
                   /\ a.out.message = "This password has already been used")
     /\ \A r \in InFlight :
          (Respond(r) /\ r.out.op = "signup" /\ r.out.status = 400) =>
            (resp' = r.out /\ users' = users)
    ]_vars

\* a signup that passed the username and email lookup was refused for its
\* password
C6_Witness ==
  /\ resp.op = "signup"
  /\ resp.status = 400
  /\ resp.message = "This password has already been used"
  /\ Len(users) >= 1

\* C7: the findOneAndDelete of a delete for an existing bookmark by an
\* authenticated user who does not own it leaves the collection as it was
\* and is answered 404 "Bookmark not found or unauthorized"; that of the
\* owner removes that bookmark and no other and is answered 200; and the
\* query of no list returns a bookmark that has been deleted.
OwnersOf(id) == {bookmarks[k].userId : k \in {k \in DOMAIN bookmarks : bookmarks[k].id = id}}

C7_DeleteOnlyByOwner ==
  [][/\ \A r \in InFlight :
          (DeleteBookmarkApply(r) /\ OwnersOf(r.bid) # {}) =>
            \E a \in NewAnswers :
              /\ a.out.op = "deleteBookmark"
              /\ IF r.uid \in OwnersOf(r.bid)
                 THEN /\ a.out.status = 200
                      /\ Range(bookmarks') = {b \in Range(bookmarks) : b.id # r.bid}
                      /\ Len(bookmarks') = Len(bookmarks) - 1
                 ELSE /\ a.out.status = 404
                      /\ a.out.message = "Bookmark not found or unauthorized"
                      /\ bookmarks' = bookmarks
     /\ \A r \in InFlight :
          ListBookmarksFind(r) =>
            \A a \in NewAnswers : \A k \in DOMAIN a.out.list :
              a.out.list[k].id \notin deleted
     /\ \A r \in InFlight :
          (Respond(r) /\ r.out.op \in {"deleteBookmark", "listBookmarks"}) =>
            (resp' = r.out /\ bookmarks' = bookmarks)
    ]_vars

\* a user asked to delete another user's bookmark; the bookmark is stored
\* and the answer on its way is 404
C7_Witness ==
  \E a \in InFlight :
    /\ a.op = "deleteBookmark" /\ a.pc = "answer"
    /\ a.out.status = 404
    /\ OwnersOf(a.bid) # {}
    /\ a.uid \notin OwnersOf(a.bid)

\* C8: the query of a list returns exactly the bookmarks of the
\* authenticated user, and of two of them, one constructed and stored
\* before the other, the later one comes first.
Position(b) == CHOOSE k \in DOMAIN bookmarks : bookmarks[k] = b

C8_ListNewestFirst ==
  [][\A r \in InFlight :
       ListBookmarksFind(r) =>
         \A a \in NewAnswers :
           /\ a.out.status = 200
           /\ Range(a.out.list) = {b \in Range(bookmarks) : b.userId = r.uid}
           /\ \A i \in DOMAIN a.out.list : \A j \in DOMAIN a.out.list :
                i < j => ~(/\ a.out.list[i].id < a.out.list[j].id
                           /\ Position(a.out.list[i]) < Position(a.out.list[j]))
    ]_vars

\* C9: on each of the four routes behind the gate, a header from which no
\* token can be taken (none, or no non-empty second word) is answered 401;
\* a token that is not a JWT signed with JWT_SECRET and unexpired is
\* answered 403; with a valid token the handler goes on as the user the
\* token names; and a step answered 401 or 403 changes no store and starts
\* no handler.
NoTokenIn(h) ==
  \/ ~h.present
  \/ Len(h.words) < 2
  \/ (h.words[2].kind = "text" /\ h.words[2].text = "")

ValidTokenIn(h) ==
  /\ ~NoTokenIn(h)
  /\ h.words[2].kind = "jwt"
  /\ env.JWT_SECRET # ""
  /\ h.words[2].jwt.key = env.JWT_SECRET
  /\ now < h.words[2].jwt.exp

\* the four routes mounted behind authenticateUser
ProtectedRoute(h) ==
  \/ LogoutAllStart(h)
  \/ \E b \in Bodies : CreateBookmark(h, b)
  \/ ListBookmarks(h)
  \/ \E id \in 0..MaxBookmarks : DeleteBookmark(h, id)

\* what ProtectedRoute(h) makes of resp and of the number of requests in
\* flight (each of its routes implies it; the routes are tried for the
\* steps that pass this test)
GateOutcome(h) ==
  LET g == authenticateUser(h) IN
  IF g.status # 0
  THEN resp' = Reply("authenticateUser", g.status, g.message)
  ELSE \/ (resp' = NoResp /\ BagCardinality(inflight') = BagCardinality(inflight) + 1)
       \/ (resp'.op = "deleteBookmark" /\ resp'.status = 500)

C9_AuthGate ==
  [][\A h \in Headers : (GateOutcome(h) /\ ProtectedRoute(h)) =>
       /\ NoTokenIn(h) => (resp'.op = "authenticateUser" /\ resp'.status = 401)
       /\ (~NoTokenIn(h) /\ ~ValidTokenIn(h)) =>
            (resp'.op = "authenticateUser" /\ resp'.status = 403)
       /\ ValidTokenIn(h) =>
            \/ /\ resp' = NoResp
               /\ \E r \in Started :
                    /\ inflight' = inflight (+) SetToBag({r})
                    /\ r.uid = h.words[2].jwt.userId
                    /\ r.pc \in {"find", "create", "delete"}
            \/ /\ resp'.op = "deleteBookmark"
               /\ resp'.status = 500
               /\ inflight' = inflight
       /\ resp'.status \in {401, 403} =>
            UNCHANGED <<users, bookmarks, nextBid, deleted, inflight>>
    ]_vars

\* the gate refused a token after every access token signed when the clock
\* started has expired, while a bookmark is stored
C9_Witness ==
  /\ resp.op = "authenticateUser"
  /\ resp.status = 403
  /\ bookmarks # <<>>
  /\ now >= AccessTTL

\* C10: no step of a refresh, whatever its answer, changes any user's
\* refreshTokens; and a stored token that refresh accepts stops being
\* accepted only by the save of a logout or logout-all of its user or by
\* the clock reaching its exp.
C10_RefreshKeepsTokens ==
  [][/\ users' # users =>
          /\ resp'.op # "refresh"
          /\ \A t \in RefreshInputs \cup {NoToken} : ~Refresh(t)
          /\ \A r \in InFlight : ~RefreshReply(r)
          /\ \A r \in InFlight : ~(Respond(r) /\ r.out.op = "refresh")
     /\ (users' # users \/ now' # now) =>
        \A t \in SignedRefreshTokens :
          (RefreshAnswer(t) = 200 /\ RefreshAnswer(t)' # 200) =>
             \/ RevokesFor(t.userId)
             \/ now' >= t.exp
    ]_vars

\* a refresh was answered 200 and its token is still stored
C10_Witness ==
  /\ resp.op = "refresh"
  /\ resp.status = 200
  /\ Stored(resp.token)
  /\ RefreshAnswer(resp.token) = 200

\* C11: the save of a logout or logout-all changes the Auth Gate's answer
\* for no access token of that user, and leaves every unexpired one
\* accepted, as does the step that sends its answer; and on the protected
\* logout-all route an unexpired access token of a user whose refreshTokens
\* has been emptied by logouts passes the gate (the request is answered
\* neither 401 nor 403).
C11_LogoutKeepsAccessTokens ==
  [][/\ \A r \in InFlight :
          (\/ LogoutSave(r) \/ LogoutAllSave(r)
           \/ (Respond(r) /\ r.out.op \in {"logout", "logoutAll"})) =>
            \A a \in SignedAccessTokens : a.userId = r.uid =>
              /\ authenticateUser(Bearer(a))' = authenticateUser(Bearer(a))
              /\ now < a.exp => authenticateUser(Bearer(a))'.status = 0
     /\ \A a \in SignedAccessTokens :
          (/\ users[a.userId].refreshTokens = <<>>
           /\ now < a.exp
           /\ LogoutAllStart(Bearer(a)))
          => (resp' = NoResp /\ BagCardinality(inflight') = BagCardinality(inflight) + 1)
    ]_vars

\* a logout-all request that passed the gate has read the record of a user
\* whose refreshTokens (one token after the signup, both secrets being
\* set) had already been emptied
C11_Witness ==
  \E r \in InFlight :
    /\ AccessSecretSet /\ RefreshSecretSet
    /\ r.op = "logoutAll"
    /\ r.pc = "save"
    /\ r.toks = <<>>
    /\ users[r.uid].refreshTokens = <<>>

\* C12: the save of a login appends the login's refresh token to the
\* user's refreshTokens as it is stored at that moment, whatever other
\* logins have appended since this login read the record; and a stored
\* token is moved or removed only by the save of a logout or a
\* logout-all of its user.  So after two overlapping logins of one user
\* have both been answered 200, both tokens are stored.
C12_ConcurrentLoginsKeepBoth ==
  [][/\ \A r \in InFlight :
          LoginPush(r) =>
            /\ r.uid \in Ids
            /\ users' = [users EXCEPT ![r.uid].refreshTokens = Append(@, r.rt)]
            /\ \E a \in NewAnswers : a.out.status = 200 /\ a.out.refreshToken = r.rt
     /\ \A i \in Ids :
          ~RevokesFor(i) =>
            \A k \in DOMAIN users[i].refreshTokens :
              /\ i \in DOMAIN users'
              /\ k \in DOMAIN users'[i].refreshTokens
              /\ users'[i].refreshTokens[k] = users[i].refreshTokens[k]
    ]_vars

\* a login of a user was answered 200 while another login of the same
\* user, which ran alongside it, waits with its 200, and the tokens of both
\* are stored
C12_Witness ==
  \E a \in InFlight :
    /\ resp.op = "login"
    /\ resp.status = 200
    /\ a.op = "login" /\ a.pc = "answer" /\ a.out.status = 200
    /\ a.uid = resp.refreshToken.userId
    /\ a.out.refreshToken # resp.refreshToken
    /\ {resp.refreshToken, a.out.refreshToken} \subseteq Range(users[a.uid].refreshTokens)

\* C13: a refresh goes on to the verification only with a token its lookup
\* found stored for some user, and is answered 200 only from there and
\* only when the token carries a signature of REFRESH_SECRET and an exp
\* the clock has not reached; a refresh whose token was found stored and
\* whose exp has been reached is answered 403 "Invalid refresh token" and
\* carries no access token.
C13_StoredAndVerified ==
  [][/\ \A r \in Started :
          (r.op = "refresh" /\ r.pc = "verify") => Stored(r.token)
     /\ (resp'.op = "refresh" /\ resp'.status = 200) =>
          /\ \E r \in InFlight :
               /\ r.op = "refresh" /\ r.pc = "verify" /\ r.token = resp'.token
               /\ RefreshReply(r)
          /\ env.REFRESH_SECRET # ""
          /\ resp'.token.key = env.REFRESH_SECRET
          /\ now < resp'.token.exp
     /\ \A r \in InFlight :
          (RefreshReply(r) /\ now >= r.token.exp) =>
            /\ resp'.status = 403
            /\ resp'.message = "Invalid refresh token"
            /\ resp'.accessToken = NoToken
    ]_vars

\* a token signed with REFRESH_SECRET, still stored, and past its exp was
\* presented to refresh and refused
C13_Witness ==
  /\ resp.op = "refresh"
  /\ resp.status = 403
  /\ Stored(resp.token)
  /\ env.REFRESH_SECRET # ""
  /\ resp.token.key = env.REFRESH_SECRET
  /\ now >= resp.token.exp
  /\ AccessSecretSet

\* C14: the save of a logout that is answered 200 for a token that the
\* user's refreshTokens holds more than once lowers the number of its
\* occurrences by exactly one.
Occurrences(s, x) == Cardinality({k \in DOMAIN s : s[k] = x})

C14_LogoutRemovesOneEntry ==
  [][\A r \in InFlight :
       (/\ LogoutSave(r)
        /\ \E a \in NewAnswers : a.out.status = 200
        /\ r.uid \in Ids
        /\ Occurrences(users[r.uid].refreshTokens, r.token) > 1)
       => Occurrences(users'[r.uid].refreshTokens, r.token)
            = Occurrences(users[r.uid].refreshTokens, r.token) - 1
    ]_vars

\* C15: a signup whose username is that of one user and whose email is
\* that of another user gets the answer 400 "Username is already taken".
C15_UsernameCheckedFirst ==
  [][\A u \in Usernames, e \in Emails, p \in Passwords :
       (/\ SignupStart(u, e, p)
        /\ \E i \in Ids : \E j \in Ids :
             /\ i # j
             /\ users[i].username = u /\ users[i].email # e
             /\ users[j].email = e /\ users[j].username # u)
       => \E a \in NewAnswers :
            /\ a.out.op = "signup"
            /\ a.out.status = 400
            /\ a.out.message = "Username is already taken"
    ]_vars

\* C16: with JWT_SECRET not set, every signup, login and refresh step that
\* reaches generateAccessToken is answered 500 with the error's message
\* "Missing JWT_SECRET in .env file": the signup that saved its user, the
\* login whose password matched, and the refresh whose token was found
\* stored and verifies.
C16_MissingSecretAnswered500 ==
  [][~AccessSecretSet =>
       /\ \A r \in InFlight :
            (SignupSign(r) \/ LoginSign(r)) =>
              /\ resp'.status = 500
              /\ resp'.message = "Missing JWT_SECRET in .env file"
       /\ \A r \in InFlight :
            (/\ RefreshReply(r)
             /\ env.REFRESH_SECRET # "" /\ r.token.key = env.REFRESH_SECRET
             /\ now < r.token.exp) =>
              /\ resp'.status = 500
              /\ resp'.message = "Missing JWT_SECRET in .env file"
    ]_vars

\* C17: a create that passes the gate builds its document with the userId
\* of its access token, whatever userId its body names; its save appends
\* that document and no other, and is answered 201 with it; and no step
\* changes the owner of a stored bookmark.
C17_OwnerIsAuthenticatedUser ==
  [][/\ \A a \in SignedAccessTokens : \A body \in Bodies :
          (now < a.exp /\ CreateBookmark(Bearer(a), body)) =>
            /\ resp' = NoResp
            /\ bookmarks' = bookmarks
            /\ \E r \in Started :
                 /\ inflight' = inflight (+) SetToBag({r})
                 /\ r.op = "createBookmark"
                 /\ r.uid = a.userId
                 /\ Len(r.doc) = 1
                 /\ r.doc[1].userId = a.userId
                 /\ r.doc[1].title = body.title
     /\ \A r \in InFlight :
          CreateBookmarkSave(r) =>
            /\ bookmarks' = Append(bookmarks, r.doc[1])
            /\ bookmarks'[Len(bookmarks')].userId = r.uid
            /\ \E a \in NewAnswers :
                 /\ a.out.status = 201
                 /\ a.out.list = <<bookmarks'[Len(bookmarks')]>>
     /\ \A b \in Range(bookmarks) : \A c \in Range(bookmarks') :
          b.id = c.id => b.userId = c.userId
    ]_vars

\* a create whose body named the last user as userId was answered 201 with
\* a bookmark of the user of its token, another user, while a bookmark of
\* the last user is stored
C17_Witness ==
  /\ resp.op = "createBookmark"
  /\ resp.status = 201
  /\ resp.list[1].title = "t2"
  /\ resp.list[1].userId # MaxUsers
  /\ resp.list[1] \in Range(bookmarks)
  /\ \E b \in Range(bookmarks) : b.userId = MaxUsers

\* C18: a signup, login, refresh or logout answered 400, 401, 403 or 500
\* leaves the users collection as it was before the request: the step that
\* answers changes nothing, and the request has inserted no user (uid, in
\* a signup that has come to sign its tokens, is the user it inserted).
C18_ErrorLeavesStoreUnchanged ==
  [][(/\ resp'.op \in {"signup", "login", "refresh", "logout"}
      /\ resp'.status \in {400, 401, 403, 500})
     => /\ users' = users
        /\ \A r \in InFlight : SignupSign(r) => r.uid \notin DOMAIN users'
    ]_vars

\* C19: every refresh token in a user's refreshTokens names that user in
\* its payload, so no token is stored for two users; and the access token
\* of a refresh answered 200 is signed for the user the presented refresh
\* token names, with that user's email.
C19_StoredTokensNameTheirUser ==
  /\ \A i \in Ids : \A t \in Range(users[i].refreshTokens) :
       /\ users[i].id = i
       /\ t.userId = i
       /\ \A j \in Ids : t \in Range(users[j].refreshTokens) => j = i
  /\ (resp.op = "refresh" /\ resp.status = 200) =>
       /\ resp.token.userId \in Ids
       /\ resp.accessToken.userId = resp.token.userId
       /\ resp.accessToken.email = users[resp.token.userId].email

\* with two users holding a token each, a refresh with the second user's
\* token was answered 200 with an access token for the second user
C19_Witness ==
  /\ Len(users) = 2
  /\ \A i \in Ids : users[i].refreshTokens # <<>>
  /\ resp.op = "refresh"
  /\ resp.status = 200
  /\ resp.token.userId = 2
  /\ resp.accessToken.userId = 2

====
